---- MODULE Spec2Model ----
(***************************************************************************)
(* Authorization-aware data access of SpendIQ: the Expense, Category and  *)
(* Team route handlers over the Prisma store.  Every handler is one       *)
(* atomic action; `last` records the request the last handler served and  *)
(* the response it returned.                                              *)
(***************************************************************************)
EXTENDS Integers, FiniteSets, Sequences, TLC

\* ---- bounds of the model ------------------------------------------------
NumUsers == 2
MaxTeams == 1
MaxCategories == 1
MaxExpenses == 1
MaxBudgets == 1
MaxRecurring == 1
MaxAmount == 2
MaxName == 1
\* number of seed rows of DEFAULT_CATEGORIES that are modelled
NumDefaults == 1
\* pages and page sizes of GET /api/expenses
MaxPage == 2
MaxLimit == 2
\* requests that are being served at the same time
MaxRequests == 2

\* ---- values ---------------------------------------------------------------
NULL == 0
UNDEF == -1

Users == 1..NumUsers
TeamIds == 1..MaxTeams
CategoryIds == 1..MaxCategories
ExpenseIds == 1..MaxExpenses
BudgetIds == 1..MaxBudgets
RecurringIds == 1..MaxRecurring
Amounts == 1..MaxAmount
Names == 1..MaxName
Pages == 1..MaxPage
Limits == 1..MaxLimit
Requests == 1..MaxRequests
\* User.email is unique: as many addresses as there can be accounts
Emails == 1..NumUsers

Role == {"ADMIN", "EDITOR", "VIEWER"}
NONE == "NONE"

VARIABLES users, teams, teamMember, categories, expenses, budgets, recurringExpenses, last,
          inflight

vars == <<users, teams, teamMember, categories, expenses, budgets, recurringExpenses, last,
          inflight>>

store == <<users, teams, teamMember, categories, expenses, budgets, recurringExpenses>>

\* ---- records ----------------------------------------------------------------
NoExpense == [id |-> NULL, userId |-> NULL, teamId |-> NULL, categoryId |-> NULL, amount |-> 0]

NoCategory == [id |-> NULL, userId |-> NULL, teamId |-> NULL, isDefault |-> FALSE, name |-> 0]

NoRequest == [op |-> "none", user |-> NULL, id |-> NULL, teamId |-> UNDEF, categoryId |-> UNDEF,
              status |-> 0, error |-> "", before |-> NoExpense, result |-> {}, total |-> 0]

\* a request between two of its statements: `pc` is the statement it runs next,
\* the other fields are what the handler holds in its local variables
Idle == [pc |-> "idle", op |-> "none", user |-> NULL, id |-> NULL, teamId |-> UNDEF,
         categoryId |-> UNDEF, amount |-> UNDEF, email |-> NULL, inUse |-> FALSE]

Response(op, user, id, teamId, categoryId, status, error, before) ==
    [op |-> op, user |-> user, id |-> id, teamId |-> teamId, categoryId |-> categoryId,
     status |-> status, error |-> error, before |-> before, result |-> {}, total |-> 0]

\* the smallest id of `ids` that no record of `table` uses (a fresh uuid)
FreshId(ids, table) ==
    CHOOSE i \in ids : /\ \A r \in table : r.id # i
                       /\ \A j \in ids : (\A r \in table : r.id # j) => i <= j

HasFreshId(ids, table) == \E i \in ids : \A r \in table : r.id # i

\* ---- Team Membership Directory ---------------------------------------------
\* variant: the row is found but its role is not read, a member counts as EDITOR
roleOf_anyRow(userId, teamId) ==
    IF teamId \in teams /\ teamMember[<<userId, teamId>>] # NONE THEN "EDITOR" ELSE NONE

\* prisma.teamMember.findUnique({ where: { userId_teamId } }) -> the role or NONE
roleOf(userId, teamId) ==
    IF teamId \in teams THEN teamMember[<<userId, teamId>>] ELSE NONE

isMember(userId, teamId) == roleOf(userId, teamId) # NONE

\* the accounts of Users are registered, each under its own email; the tables
\* of the application are empty
Init ==
    /\ users = {[id |-> u, email |-> u] : u \in Users}
    /\ teams = {}
    /\ teamMember = [p \in Users \X TeamIds |-> NONE]
    /\ categories = {}
    /\ expenses = {}
    /\ budgets = {}
    /\ recurringExpenses = {}
    /\ last = NoRequest
    /\ inflight = [r \in Requests |-> Idle]

\* no account is registered yet
InitEmpty ==
    /\ users = {}
    /\ teams = {}
    /\ teamMember = [p \in Users \X TeamIds |-> NONE]
    /\ categories = {}
    /\ expenses = {}
    /\ budgets = {}
    /\ recurringExpenses = {}
    /\ last = NoRequest
    /\ inflight = [r \in Requests |-> Idle]

\* ---- Principal Resolver ----------------------------------------------------
\* getServerSession(authOptions): the session's user id, NULL without a session
Sessions == Users \cup {NULL}

\* the sessions there can be: one per registered account, or none
ActiveSessions == {u.id : u \in users} \cup {NULL}

\* a session whose user object carries no id ({ user: { email, name } })
NoId == -2

Unauthorized(op, id) ==
    Response(op, NULL, id, UNDEF, UNDEF, 401, "Unauthorized", NoExpense)

\* ---- Default Provisioning ----------------------------------------------------
\* the n smallest category ids that no stored category uses
RECURSIVE FreshCategoryIds(_, _)
FreshCategoryIds(n, used) ==
    IF n = 0 THEN {}
    ELSE LET i == FreshId(CategoryIds, used)
         IN {i} \cup FreshCategoryIds(n - 1, used \cup {[NoCategory EXCEPT !.id = i]})

CanSeed(table) ==
    Cardinality({i \in CategoryIds : \A c \in table : c.id # i}) >= NumDefaults

\* variant: the owner's categories are replaced by the seed rows
createDefaultCategoriesForUser_reset(userId, table) ==
    LET kept == {c \in table : c.userId # userId}
        ids == FreshCategoryIds(NumDefaults, kept)
        nameOf(i) == 1 + ((Cardinality({j \in ids : j < i})) % MaxName)
    IN kept \cup {[id |-> i, userId |-> userId, teamId |-> NULL,
                    isDefault |-> TRUE, name |-> nameOf(i)] : i \in ids}

\* createDefaultCategoriesForUser(userId): the categories table afterwards
createDefaultCategoriesForUser(userId, table) ==
    IF Cardinality({c \in table : c.userId = userId}) > 0
    THEN table
    ELSE LET ids == FreshCategoryIds(NumDefaults, table)
             nameOf(i) == 1 + ((Cardinality({j \in ids : j < i})) % MaxName)
         IN table \cup {[id |-> i, userId |-> userId, teamId |-> NULL,
                          isDefault |-> TRUE, name |-> nameOf(i)] : i \in ids}

\* createDefaultCategoriesForTeam(teamId): the categories table afterwards
createDefaultCategoriesForTeam(teamId, table) ==
    IF Cardinality({c \in table : c.teamId = teamId}) > 0
    THEN table
    ELSE LET ids == FreshCategoryIds(NumDefaults, table)
             nameOf(i) == 1 + ((Cardinality({j \in ids : j < i})) % MaxName)
         IN table \cup {[id |-> i, userId |-> NULL, teamId |-> teamId,
                          isDefault |-> TRUE, name |-> nameOf(i)] : i \in ids}

\* a call of createDefaultCategoriesForUser for a registered account; `result`
\* holds the ids of the rows the call inserted
CallCreateDefaultCategoriesForUser(userId) ==
    /\ \E u \in users : u.id = userId
    /\ (\E c \in categories : c.userId = userId) \/ CanSeed(categories)
    /\ categories' = createDefaultCategoriesForUser(userId, categories)
    /\ last' = [Response("createDefaultCategoriesForUser", NULL, userId, UNDEF, UNDEF, 0, "",
                         NoCategory)
                   EXCEPT !.result = {c.id : c \in categories' \ categories}]
    /\ UNCHANGED <<inflight, users, teams, teamMember, expenses, budgets, recurringExpenses>>

\* a call of createDefaultCategoriesForTeam for a stored team
CallCreateDefaultCategoriesForTeam(teamId) ==
    /\ teamId \in teams
    /\ (\E c \in categories : c.teamId = teamId) \/ CanSeed(categories)
    /\ categories' = createDefaultCategoriesForTeam(teamId, categories)
    /\ last' = [Response("createDefaultCategoriesForTeam", NULL, teamId, UNDEF, UNDEF, 0, "",
                         NoCategory)
                   EXCEPT !.result = {c.id : c \in categories' \ categories}]
    /\ UNCHANGED <<inflight, users, teams, teamMember, expenses, budgets, recurringExpenses>>

\* ---- POST /api/auth/signup --------------------------------------------------
Signup(email) ==
    IF \E u \in users : u.email = email
    THEN /\ last' = Response("SIGNUP", NULL, NULL, UNDEF, UNDEF, 409,
                             "User with this email already exists", NoCategory)
         /\ UNCHANGED <<store, inflight>>
    ELSE /\ HasFreshId(Users, users)
         /\ CanSeed(categories)
         /\ LET id == FreshId(Users, users)
            IN /\ users' = users \cup {[id |-> id, email |-> email]}
               /\ categories' = createDefaultCategoriesForUser(id, categories)
               /\ last' = Response("SIGNUP", NULL, id, UNDEF, UNDEF, 201, "", NoCategory)
         /\ UNCHANGED <<inflight, teams, teamMember, expenses, budgets, recurringExpenses>>

\* ---- /api/teams ---------------------------------------------------------------
\* the statement of POST /api/teams that the database fails, if any
Faults == {"none", "team.create", "teamMember.create", "createDefaultCategories"}

\* variant: the two rows are written one after the other, outside a transaction
createTeamTransaction_noRollback(userId, team, fault) ==
    IF fault = "team.create"
    THEN [ok |-> FALSE, teams |-> teams, teamMember |-> teamMember]
    ELSE IF fault = "teamMember.create" \/ userId = UNDEF
    THEN [ok |-> FALSE, teams |-> teams \cup {team}, teamMember |-> teamMember]
    ELSE [ok |-> TRUE, teams |-> teams \cup {team},
          teamMember |-> [teamMember EXCEPT ![<<userId, team>>] = "ADMIN"]]

\* prisma.$transaction(tx => { tx.team.create; tx.teamMember.create }): both
\* rows, or none when a statement fails (teamMember.create rejects a missing
\* userId); the tables afterwards
createTeamTransaction(userId, team, fault) ==
    IF fault \in {"team.create", "teamMember.create"} \/ userId = UNDEF
    THEN [ok |-> FALSE, teams |-> teams, teamMember |-> teamMember]
    ELSE [ok |-> TRUE, teams |-> teams \cup {team},
          teamMember |-> [teamMember EXCEPT ![<<userId, team>>] = "ADMIN"]]

\* POST /api/teams
PostTeam(session, fault) ==
    IF session = NULL
    THEN /\ last' = Unauthorized("POST_TEAM", NULL)
         /\ UNCHANGED <<store, inflight>>
    ELSE /\ fault = "team.create" \/ HasFreshId(TeamIds, {[id |-> t] : t \in teams})
         /\ LET userId == IF session = NoId THEN UNDEF ELSE session
                team == IF fault = "team.create" THEN NULL
                        ELSE FreshId(TeamIds, {[id |-> t] : t \in teams})
                tx == createTeamTransaction(userId, team, fault)
                failed == Response("POST_TEAM", session, NULL, UNDEF, UNDEF, 500,
                                   "Failed to create team", NoExpense)
            IN /\ teams' = tx.teams
               /\ teamMember' = tx.teamMember
               /\ IF ~tx.ok \/ fault = "createDefaultCategories"
                  THEN /\ categories' = categories
                       /\ last' = failed
                  ELSE /\ CanSeed(categories)
                       /\ categories' = createDefaultCategoriesForTeam(team, categories)
                       /\ last' = Response("POST_TEAM", session, team, UNDEF, UNDEF, 201, "",
                                           NoExpense)
         /\ UNCHANGED <<inflight, users, expenses, budgets, recurringExpenses>>

\* GET /api/teams: the teams with a member row for userId, each with the role of
\* that row; an undefined userId drops the filter, so that every team with a
\* member is listed, with the role of one of its rows
GetTeams(session) ==
    /\ UNCHANGED <<store, inflight>>
    /\ IF session = NULL
       THEN last' = Unauthorized("GET_TEAMS", NULL)
       ELSE LET rows(t) == IF session = NoId
                           THEN {u \in Users : teamMember[<<u, t>>] # NONE}
                           ELSE {u \in {session} : teamMember[<<u, t>>] # NONE}
                listed == {t \in teams : rows(t) # {}}
            IN \E first \in [listed -> Users] :
                  /\ \A t \in listed : first[t] \in rows(t)
                  /\ last' = [Response("GET_TEAMS", session, NULL, UNDEF, UNDEF, 200, "",
                                       NoExpense)
                                 EXCEPT !.result = {[id |-> t, role |-> teamMember[<<first[t], t>>]]
                                                      : t \in listed}]

\* ---- rows written outside the route handlers ---------------------------------
\* The schema has the tables team_members, budgets and recurring_expenses, but
\* no route of the application writes them (apart from the ADMIN row of POST
\* /api/teams).  Their rows are written directly against the store; the
\* schema's keys are all that restricts such a write.
StoreWrite(op, id) ==
    Response(op, NULL, id, UNDEF, UNDEF, 0, "", NoExpense)

\* model TeamMember: one row per (userId, teamId), teamId references a Team
TeamMemberUpsert(userId, teamId, role) ==
    /\ teamId \in teams
    /\ teamMember[<<userId, teamId>>] # role
    /\ teamMember' = [teamMember EXCEPT ![<<userId, teamId>>] = role]
    /\ last' = StoreWrite("teamMember.upsert", teamId)
    /\ UNCHANGED <<inflight, users, teams, categories, expenses, budgets, recurringExpenses>>

TeamMemberDelete(userId, teamId) ==
    /\ teamId \in teams
    /\ teamMember[<<userId, teamId>>] # NONE
    /\ teamMember' = [teamMember EXCEPT ![<<userId, teamId>>] = NONE]
    /\ last' = StoreWrite("teamMember.delete", teamId)
    /\ UNCHANGED <<inflight, users, teams, categories, expenses, budgets, recurringExpenses>>

\* model Budget: categoryId references a Category, teamId (nullable) a Team
BudgetCreate(userId, categoryId, teamId) ==
    /\ \E c \in categories : c.id = categoryId
    /\ teamId = NULL \/ teamId \in teams
    /\ HasFreshId(BudgetIds, budgets)
    /\ LET id == FreshId(BudgetIds, budgets)
       IN /\ budgets' = budgets \cup {[id |-> id, userId |-> userId, teamId |-> teamId,
                                       categoryId |-> categoryId]}
          /\ last' = StoreWrite("budget.create", id)
    /\ UNCHANGED <<inflight, users, teams, teamMember, categories, expenses, recurringExpenses>>

\* model RecurringExpense: categoryId references a Category
RecurringExpenseCreate(userId, categoryId) ==
    /\ \E c \in categories : c.id = categoryId
    /\ HasFreshId(RecurringIds, recurringExpenses)
    /\ LET id == FreshId(RecurringIds, recurringExpenses)
       IN /\ recurringExpenses' = recurringExpenses \cup
                 {[id |-> id, userId |-> userId, categoryId |-> categoryId]}
          /\ last' = StoreWrite("recurringExpense.create", id)
    /\ UNCHANGED <<inflight, users, teams, teamMember, categories, expenses, budgets>>

\* model User: the delete of a user row.  Expense.user, Category.user,
\* Budget.user, TeamMember.user and RecurringExpense.user are onDelete: Cascade;
\* Expense.category, Budget.category and RecurringExpense.category carry no
\* onDelete and are required, so a category that is still referenced cannot go.
\* A reference that survives the cascade refuses the delete; a reference from a
\* row the same cascade removes refuses it or not with the order in which the
\* database walks the two cascades.
UserDelete(userId) ==
    /\ \E u \in users : u.id = userId
    /\ LET goneCategories == {c \in categories : c.userId = userId}
           refers(r) == \E c \in goneCategories : r.categoryId = c.id
           gone(table) == {r \in table : r.userId = userId}
           kept(table) == table \ gone(table)
           mustRefuse == \E r \in kept(expenses) \cup kept(budgets) : refers(r)
           mustRefuse2 == \E r \in kept(recurringExpenses) : refers(r)
           mayRefuse == \/ \E r \in gone(expenses) \cup gone(budgets) : refers(r)
                        \/ \E r \in gone(recurringExpenses) : refers(r)
       IN \/ /\ mustRefuse \/ mustRefuse2 \/ mayRefuse
             /\ UNCHANGED <<store, inflight>>
             /\ last' = [StoreWrite("user.delete", userId)
                            EXCEPT !.error = "Foreign key constraint failed"]
          \/ /\ ~mustRefuse /\ ~mustRefuse2
             /\ users' = {u \in users : u.id # userId}
             /\ expenses' = kept(expenses)
             /\ categories' = categories \ goneCategories
             /\ budgets' = kept(budgets)
             /\ recurringExpenses' = kept(recurringExpenses)
             /\ teamMember' = [k \in DOMAIN teamMember |->
                                  IF k[1] = userId THEN NONE ELSE teamMember[k]]
             /\ teams' = teams
             /\ last' = StoreWrite("user.delete", userId)
             /\ UNCHANGED inflight

\* ---- Expense routes ----------------------------------------------------------
\* the stored record with this id, or the null record
expenseById(id) ==
    IF \E e \in expenses : e.id = id THEN CHOOSE e \in expenses : e.id = id ELSE NoExpense

categoryById(id) ==
    IF \E c \in categories : c.id = id THEN CHOOSE c \in categories : c.id = id ELSE NoCategory

\* variant: the load filters on the id alone
expenseReadWhere_idOnly(userId, e) == TRUE

\* where-clause of GET /api/expenses/[id]: own expense, or expense of a team
\* the user is a member of
expenseReadWhere(userId, e) ==
    \/ e.userId = userId
    \/ (e.teamId # NULL /\ isMember(userId, e.teamId))

\* variant: only the ADMIN role is accepted by the load
expenseEditWhere_adminOnly(userId, e) ==
    \/ e.userId = userId
    \/ (e.teamId # NULL /\ roleOf(userId, e.teamId) \in {"ADMIN"})

\* where-clause of PUT and DELETE /api/expenses/[id]: own expense, or expense
\* of a team in which the user is ADMIN or EDITOR
expenseEditWhere(userId, e) ==
    \/ e.userId = userId
    \/ (e.teamId # NULL /\ roleOf(userId, e.teamId) \in {"ADMIN", "EDITOR"})

\* variant: the role check is made for the owner too
insufficientPermissions_roleOnly(userId, e) ==
    LET userRole == IF e.teamId # NULL THEN roleOf(userId, e.teamId) ELSE NONE
    IN userRole = NONE \/ userRole \notin {"ADMIN", "EDITOR"}

\* the role check after the load: not the owner and no ADMIN/EDITOR role
insufficientPermissions(userId, e) ==
    /\ e.userId # userId
    /\ LET userRole == IF e.teamId # NULL THEN roleOf(userId, e.teamId) ELSE NONE
       IN userRole = NONE \/ userRole \notin {"ADMIN", "EDITOR"}

\* where-clause of the category lookup of POST and PUT of an expense
categoryAccessWhere(userId, c) ==
    \/ c.userId = userId
    \/ c.isDefault
    \/ (c.teamId # NULL /\ isMember(userId, c.teamId))

\* variant: the lookup is by id alone
categoryAccessible_byId(userId, categoryId) ==
    \E c \in categories : c.id = categoryId

categoryAccessible(userId, categoryId) ==
    \E c \in categories : c.id = categoryId /\ categoryAccessWhere(userId, c)

\* variant: any membership is accepted
teamWritable_anyRole(userId, teamId) ==
    roleOf(userId, teamId) # NONE

\* prisma.teamMember.findFirst({ teamId, userId, role in [ADMIN, EDITOR] })
teamWritable(userId, teamId) ==
    roleOf(userId, teamId) \in {"ADMIN", "EDITOR"}

\* GET /api/expenses/[id]
GetExpense(session, id) ==
    /\ UNCHANGED <<store, inflight>>
    /\ IF session = NULL
       THEN last' = Unauthorized("GET_EXPENSE", id)
       ELSE LET e == expenseById(id)
            IN IF e = NoExpense \/ ~expenseReadWhere(session, e)
               THEN last' = Response("GET_EXPENSE", session, id, UNDEF, UNDEF, 404,
                                     "Expense not found", e)
               ELSE last' = Response("GET_EXPENSE", session, id, UNDEF, UNDEF, 200, "", e)

\* variant: the team clause of the list does not look at the membership
expenseListWhere_anyTeam(userId, e) ==
    \/ e.userId = userId
    \/ e.teamId # NULL

\* where-clause of GET /api/expenses: own expense, or expense of a team that
\* has a member row of the user
expenseListWhere(userId, e) ==
    \/ e.userId = userId
    \/ (e.teamId # NULL /\ e.teamId \in teams /\ teamMember[<<userId, e.teamId>>] # NONE)

\* GET /api/expenses: findMany({ where, orderBy, skip, take }) and count({ where
\* }); the order of the rows is left open, so the page is any `take` rows that
\* `skip` rows can precede
GetExpenses(session, categoryId, teamId, page, limit) ==
    /\ UNCHANGED <<store, inflight>>
    /\ IF session = NULL
       THEN last' = Unauthorized("GET_EXPENSES", NULL)
       ELSE LET where == {e \in expenses :
                            /\ expenseListWhere(session, e)
                            /\ categoryId # UNDEF => e.categoryId = categoryId
                            /\ teamId # UNDEF => e.teamId = teamId}
                total == Cardinality(where)
                skip == (page - 1) * limit
                take == IF total <= skip THEN 0
                        ELSE IF total - skip < limit THEN total - skip ELSE limit
            IN \E rows \in SUBSET where :
                  /\ Cardinality(rows) = take
                  /\ last' = [Response("GET_EXPENSES", session, NULL, teamId, categoryId, 200,
                                       "", NoExpense)
                                 EXCEPT !.result = rows, !.total = total]

\* POST /api/expenses
PostExpense(session, amount, categoryId, teamId) ==
    /\ UNCHANGED <<inflight, users, teams, teamMember, categories, budgets, recurringExpenses>>
    /\ IF session = NULL
       THEN /\ last' = Unauthorized("POST_EXPENSE", NULL)
            /\ expenses' = expenses
       ELSE IF ~categoryAccessible(session, categoryId)
       THEN /\ last' = Response("POST_EXPENSE", session, NULL, teamId, categoryId, 404,
                                "Category not found or access denied", NoExpense)
            /\ expenses' = expenses
       ELSE IF teamId # UNDEF /\ ~teamWritable(session, teamId)
       THEN /\ last' = Response("POST_EXPENSE", session, NULL, teamId, categoryId, 403,
                                "Team not found or insufficient permissions", NoExpense)
            /\ expenses' = expenses
       ELSE /\ HasFreshId(ExpenseIds, expenses)
            /\ LET id == FreshId(ExpenseIds, expenses)
                   e == [id |-> id, userId |-> session,
                         teamId |-> IF teamId = UNDEF THEN NULL ELSE teamId,
                         categoryId |-> categoryId, amount |-> amount]
               IN /\ expenses' = expenses \cup {e}
                  /\ last' = Response("POST_EXPENSE", session, id, teamId, categoryId, 201,
                                      "", NoExpense)

\* variant: an expense moved into a team loses its userId, as a team category does
updateExpense_teamOwned(e, amount, categoryId, teamId) ==
    [e EXCEPT !.amount = IF amount = UNDEF THEN @ ELSE amount,
              !.categoryId = IF categoryId = UNDEF THEN @ ELSE categoryId,
              !.teamId = IF teamId = UNDEF THEN @ ELSE teamId,
              !.userId = IF teamId \in {UNDEF, NULL} THEN @ ELSE NULL]

\* the expense after prisma.expense.update({ data: updateData })
updateExpense(e, amount, categoryId, teamId) ==
    [e EXCEPT !.amount = IF amount = UNDEF THEN @ ELSE amount,
              !.categoryId = IF categoryId = UNDEF THEN @ ELSE categoryId,
              !.teamId = IF teamId = UNDEF THEN @ ELSE teamId]

\* PUT /api/expenses/[id]
PutExpense(session, id, amount, categoryId, teamId) ==
    /\ UNCHANGED <<inflight, users, teams, teamMember, categories, budgets, recurringExpenses>>
    /\ IF session = NULL
       THEN /\ last' = Unauthorized("PUT_EXPENSE", id)
            /\ expenses' = expenses
       ELSE LET e == expenseById(id)
                reply(status, error) ==
                    Response("PUT_EXPENSE", session, id, teamId, categoryId, status, error, e)
            IN IF e = NoExpense \/ ~expenseEditWhere(session, e)
               THEN /\ last' = reply(404, "Expense not found or access denied")
                    /\ expenses' = expenses
               ELSE IF insufficientPermissions(session, e)
               THEN /\ last' = reply(403, "Insufficient permissions to edit this expense")
                    /\ expenses' = expenses
               ELSE IF categoryId # UNDEF /\ ~categoryAccessible(session, categoryId)
               THEN /\ last' = reply(404, "Category not found or access denied")
                    /\ expenses' = expenses
               ELSE IF teamId # UNDEF /\ teamId # NULL /\ ~teamWritable(session, teamId)
               THEN /\ last' = reply(403, "Team not found or insufficient permissions")
                    /\ expenses' = expenses
               ELSE /\ expenses' = (expenses \ {e}) \cup {updateExpense(e, amount, categoryId, teamId)}
                    /\ last' = reply(200, "")

\* DELETE /api/expenses/[id]
DeleteExpense(session, id) ==
    /\ UNCHANGED <<inflight, users, teams, teamMember, categories, budgets, recurringExpenses>>
    /\ IF session = NULL
       THEN /\ last' = Unauthorized("DELETE_EXPENSE", id)
            /\ expenses' = expenses
       ELSE LET e == expenseById(id)
                reply(status, error) ==
                    Response("DELETE_EXPENSE", session, id, UNDEF, UNDEF, status, error, e)
            IN IF e = NoExpense \/ ~expenseEditWhere(session, e)
               THEN /\ last' = reply(404, "Expense not found or access denied")
                    /\ expenses' = expenses
               ELSE IF insufficientPermissions(session, e)
               THEN /\ last' = reply(403, "Insufficient permissions to delete this expense")
                    /\ expenses' = expenses
               ELSE /\ expenses' = expenses \ {e}
                    /\ last' = reply(200, "")

\* ---- Category routes ---------------------------------------------------------
\* variant: a request without credentials is served as the first account
resolveUser_firstAccount(session, token) ==
    IF session # NULL THEN session ELSE IF token # NULL THEN token ELSE 1

\* userId = session?.user?.id || tokenUser?.id (the token is only looked at
\* without a session)
resolveUser(session, token) ==
    IF session # NULL THEN session ELSE token

\* isDefaultValidator = z.boolean().optional().default(false)
isDefaultValidator(v) ==
    IF v = "absent" THEN FALSE ELSE (v = "true")

IsDefaultInputs == {"absent", "true", "false"}

\* access check of GET /api/categories/[id]: TRUE when the request is refused
categoryReadDenied(userId, c) ==
    /\ c.userId # NULL
    /\ c.userId # userId
    /\ IF c.teamId # NULL THEN ~isMember(userId, c.teamId) ELSE TRUE

\* permission check of PUT /api/categories/[id]
categoryUpdateDenied(userId, c) ==
    /\ c.userId # NULL
    /\ c.userId # userId
    /\ IF c.teamId # NULL
       THEN roleOf(userId, c.teamId) \notin {"ADMIN", "EDITOR"}
       ELSE TRUE

\* permission check of DELETE /api/categories/[id]
categoryDeleteDenied(userId, c) ==
    /\ c.userId # NULL
    /\ c.userId # userId
    /\ IF c.teamId # NULL
       THEN roleOf(userId, c.teamId) # "ADMIN"
       ELSE TRUE

\* membership check of POST /api/categories with a teamId
categoryCreateDenied(userId, teamId) ==
    ~isMember(userId, teamId)

\* variant: only the expenses of the category are looked at
categoryInUse_expensesOnly(id) ==
    Cardinality({e \in expenses : e.categoryId = id}) > 0

\* include: expenses / budgets / recurringExpenses (take: 1) of the category
categoryInUse(id) ==
    \/ Cardinality({e \in expenses : e.categoryId = id}) > 0
    \/ Cardinality({b \in budgets : b.categoryId = id}) > 0
    \/ Cardinality({r \in recurringExpenses : r.categoryId = id}) > 0

\* GET /api/categories: the categories of the team of the query, or without a
\* teamId the personal categories of the user
GetCategories(session, token, teamId) ==
    /\ UNCHANGED <<store, inflight>>
    /\ LET userId == resolveUser(session, token)
           query(c) == IF teamId # NULL
                       THEN c.teamId = teamId
                       ELSE c.userId = userId /\ c.teamId = NULL
       IN IF userId = NULL
          THEN last' = Unauthorized("GET_CATEGORIES", NULL)
          ELSE last' = [Response("GET_CATEGORIES", userId, NULL, teamId, UNDEF, 200, "",
                                 NoCategory)
                           EXCEPT !.result = {c \in categories : query(c)}]

\* GET /api/categories/[id]
GetCategory(session, token, id) ==
    /\ UNCHANGED <<store, inflight>>
    /\ LET userId == resolveUser(session, token)
           c == categoryById(id)
           reply(status, error) ==
               Response("GET_CATEGORY", userId, id, UNDEF, UNDEF, status, error, c)
       IN IF userId = NULL THEN last' = Unauthorized("GET_CATEGORY", id)
          ELSE IF c = NoCategory THEN last' = reply(404, "Category not found")
          ELSE IF categoryReadDenied(userId, c) THEN last' = reply(403, "Unauthorized")
          ELSE last' = reply(200, "")

\* POST /api/categories
PostCategory(session, token, name, isDefault, teamId) ==
    /\ UNCHANGED <<inflight, users, teams, teamMember, expenses, budgets, recurringExpenses>>
    /\ LET userId == resolveUser(session, token)
       IN IF userId = NULL
          THEN /\ last' = Unauthorized("POST_CATEGORY", NULL)
               /\ categories' = categories
          ELSE IF teamId # NULL /\ categoryCreateDenied(userId, teamId)
          THEN /\ last' = Response("POST_CATEGORY", userId, NULL, teamId, UNDEF, 403,
                                   "You are not a member of this team", NoCategory)
               /\ categories' = categories
          ELSE /\ HasFreshId(CategoryIds, categories)
               /\ LET id == FreshId(CategoryIds, categories)
                      c == [id |-> id, userId |-> IF teamId # NULL THEN NULL ELSE userId,
                            teamId |-> teamId, isDefault |-> isDefaultValidator(isDefault),
                            name |-> name]
                  IN /\ categories' = categories \cup {c}
                     /\ last' = Response("POST_CATEGORY", userId, id, teamId, UNDEF, 201,
                                         "", NoCategory)

\* the category after prisma.category.update({ data: validationResult.data })
updateCategory(c, name, isDefault) ==
    [c EXCEPT !.name = IF name = UNDEF THEN @ ELSE name,
              !.isDefault = isDefaultValidator(isDefault)]

\* PUT /api/categories/[id]
PutCategory(session, token, id, name, isDefault) ==
    /\ UNCHANGED <<inflight, users, teams, teamMember, expenses, budgets, recurringExpenses>>
    /\ LET userId == resolveUser(session, token)
           c == categoryById(id)
           reply(status, error) ==
               Response("PUT_CATEGORY", userId, id, UNDEF, UNDEF, status, error, c)
       IN IF userId = NULL
          THEN /\ last' = Unauthorized("PUT_CATEGORY", id)
               /\ categories' = categories
          ELSE IF c = NoCategory
          THEN /\ last' = reply(404, "Category not found")
               /\ categories' = categories
          ELSE IF categoryUpdateDenied(userId, c)
          THEN /\ last' = reply(403, "Unauthorized")
               /\ categories' = categories
          ELSE /\ categories' = (categories \ {c}) \cup {updateCategory(c, name, isDefault)}
               /\ last' = reply(200, "")

\* DELETE /api/categories/[id]
DeleteCategory(session, token, id) ==
    /\ UNCHANGED <<inflight, users, teams, teamMember, expenses, budgets, recurringExpenses>>
    /\ LET userId == resolveUser(session, token)
           c == categoryById(id)
           reply(status, error) ==
               Response("DELETE_CATEGORY", userId, id, UNDEF, UNDEF, status, error, c)
       IN IF userId = NULL
          THEN /\ last' = Unauthorized("DELETE_CATEGORY", id)
               /\ categories' = categories
          ELSE IF c = NoCategory
          THEN /\ last' = reply(404, "Category not found")
               /\ categories' = categories
          ELSE IF categoryDeleteDenied(userId, c)
          THEN /\ last' = reply(403, "Unauthorized")
               /\ categories' = categories
          ELSE IF categoryInUse(id)
          THEN /\ last' = reply(400, "Cannot delete category that is in use")
               /\ categories' = categories
          ELSE /\ categories' = categories \ {c}
               /\ last' = reply(200, "")

\* ---- requests served at the same time ----------------------------------------
\* A handler awaits each of its database statements, and between two awaits
\* the statements of other requests run.  The handlers below are the ones
\* above cut at their awaits: one action per statement, the request's local
\* variables kept in inflight[r].
Resume(r, pc) == inflight[r].pc = pc

Continue(r, next) == inflight' = [inflight EXCEPT ![r] = next]

Finish(r) == inflight' = [inflight EXCEPT ![r] = Idle]

\* ids of the rows that createMany inserts: every call that is in flight can
\* insert its own seed rows
SeedIds == 1..(MaxRequests * NumDefaults)

FreeSeedIds(table) == {i \in SeedIds : \A c \in table : c.id # i}

\* prisma.category.createMany({ data: DEFAULT_CATEGORIES.map(c => ({ ...c,
\* userId })) }): the table afterwards.  The schema has no unique key on
\* (userId, name), the insert never fails on rows that are there already.
createManyDefaults(userId, table) ==
    LET free == FreeSeedIds(table)
        ids == {i \in free : Cardinality({j \in free : j < i}) < NumDefaults}
        nameOf(i) == 1 + ((Cardinality({j \in ids : j < i})) % MaxName)
    IN table \cup {[id |-> i, userId |-> userId, teamId |-> NULL,
                     isDefault |-> TRUE, name |-> nameOf(i)] : i \in ids}

\* variant: the insert goes through without the unique index on users.email
userCreate_noUniqueIndex(email, table) ==
    [ok |-> TRUE, users |-> table \cup {[id |-> FreshId(Users, table), email |-> email]}]

\* prisma.user.create({ data: { email, ... } }) on a table with email @unique:
\* the insert fails when a row has the email
userCreate(email, table) ==
    IF \E u \in table : u.email = email
    THEN [ok |-> FALSE, users |-> table]
    ELSE [ok |-> TRUE, users |-> table \cup {[id |-> FreshId(Users, table), email |-> email]}]

\* POST /api/auth/signup, first statement: prisma.user.findUnique({ email })
SignupFindUnique(r, email) ==
    /\ Resume(r, "idle")
    /\ UNCHANGED store
    /\ IF \E u \in users : u.email = email
       THEN /\ last' = [Response("SIGNUP", NULL, NULL, UNDEF, UNDEF, 409,
                                 "User with this email already exists", NoCategory)
                           EXCEPT !.result = {email}]
            /\ UNCHANGED inflight
       ELSE /\ Continue(r, [Idle EXCEPT !.pc = "user.create", !.op = "SIGNUP",
                                       !.email = email])
            /\ UNCHANGED last

\* second statement: prisma.user.create; a rejected insert is caught and
\* answered 500
SignupUserCreate(r) ==
    /\ Resume(r, "user.create")
    /\ HasFreshId(Users, users)
    /\ LET created == userCreate(inflight[r].email, users)
       IN /\ users' = created.users
          /\ IF created.ok
             THEN /\ Continue(r, [inflight[r] EXCEPT
                                    !.pc = "category.count",
                                    !.user = (CHOOSE u \in users' \ users : TRUE).id])
                  /\ UNCHANGED last
             ELSE /\ Finish(r)
                  /\ last' = [Response("SIGNUP", NULL, NULL, UNDEF, UNDEF, 500,
                                       "Failed to create user", NoCategory)
                                 EXCEPT !.result = {inflight[r].email}]
    /\ UNCHANGED <<teams, teamMember, categories, expenses, budgets, recurringExpenses>>

\* a call of createDefaultCategoriesForUser(userId) from another place than
\* the signup of the user
CallBegin(r, userId) ==
    /\ Resume(r, "idle")
    /\ \E u \in users : u.id = userId
    /\ Continue(r, [Idle EXCEPT !.pc = "category.count",
                                !.op = "createDefaultCategoriesForUser", !.user = userId])
    /\ UNCHANGED <<store, last>>

\* what the caller of createDefaultCategoriesForUser answers when it returns
Provisioned(r, inserted) ==
    IF inflight[r].op = "SIGNUP"
    THEN [Response("SIGNUP", NULL, inflight[r].user, UNDEF, UNDEF, 201, "", NoCategory)
            EXCEPT !.result = {inflight[r].email}]
    ELSE [Response("createDefaultCategoriesForUser", NULL, inflight[r].user, UNDEF, UNDEF,
                   0, "", NoCategory)
            EXCEPT !.result = inserted]

\* createDefaultCategoriesForUser, first statement: prisma.category.count({
\* userId }); with a count above zero the function returns
ProvisionCount(r) ==
    /\ Resume(r, "category.count")
    /\ UNCHANGED store
    /\ IF Cardinality({c \in categories : c.userId = inflight[r].user}) > 0
       THEN /\ Finish(r)
            /\ last' = Provisioned(r, {})
       ELSE /\ Continue(r, [inflight[r] EXCEPT !.pc = "category.createMany"])
            /\ UNCHANGED last

\* createDefaultCategoriesForUser, second statement: prisma.category.createMany
ProvisionCreateMany(r) ==
    /\ Resume(r, "category.createMany")
    /\ Cardinality(FreeSeedIds(categories)) >= NumDefaults
    /\ categories' = createManyDefaults(inflight[r].user, categories)
    /\ last' = Provisioned(r, {c.id : c \in categories' \ categories})
    /\ Finish(r)
    /\ UNCHANGED <<users, teams, teamMember, expenses, budgets, recurringExpenses>>

\* the request r of route op is about to run the statement pc
At(r, op, pc) == inflight[r].op = op /\ inflight[r].pc = pc

\* variant: the column carries no foreign key
foreignKeyCategory_unchecked(categoryId) == TRUE

\* Expense.category is a required relation on categoryId: the database accepts
\* the insert or update of an expense only when the category row exists
foreignKeyCategory(categoryId) ==
    \E c \in categories : c.id = categoryId

\* the same key on the side of the category: a row that an expense, a budget
\* or a recurring expense references cannot be deleted
categoryReferenced(id) ==
    \/ \E e \in expenses : e.categoryId = id
    \/ \E b \in budgets : b.categoryId = id
    \/ \E x \in recurringExpenses : x.categoryId = id

\* what a handler answers from its catch block
InternalServerError(r) ==
    Response(inflight[r].op, inflight[r].user, inflight[r].id, inflight[r].teamId,
             inflight[r].categoryId, 500,
             IF inflight[r].op = "DELETE_CATEGORY" THEN "Failed to delete category"
             ELSE "Internal server error", NoExpense)

\* POST /api/expenses, first statement: prisma.category.findFirst
PostExpenseFindCategory(r, session, amount, categoryId, teamId) ==
    /\ Resume(r, "idle")
    /\ UNCHANGED store
    /\ IF ~categoryAccessible(session, categoryId)
       THEN /\ last' = Response("POST_EXPENSE", session, NULL, teamId, categoryId, 404,
                                "Category not found or access denied", NoExpense)
            /\ UNCHANGED inflight
       ELSE /\ Continue(r, [Idle EXCEPT !.op = "POST_EXPENSE", !.user = session,
                                       !.amount = amount, !.categoryId = categoryId,
                                       !.teamId = teamId,
                                       !.pc = IF teamId # UNDEF THEN "teamMember.findFirst"
                                              ELSE "expense.create"])
            /\ UNCHANGED last

\* second statement, for a request with a teamId: prisma.teamMember.findFirst
PostExpenseFindTeamMember(r) ==
    /\ At(r, "POST_EXPENSE", "teamMember.findFirst")
    /\ UNCHANGED store
    /\ IF ~teamWritable(inflight[r].user, inflight[r].teamId)
       THEN /\ last' = Response("POST_EXPENSE", inflight[r].user, NULL, inflight[r].teamId,
                                inflight[r].categoryId, 403,
                                "Team not found or insufficient permissions", NoExpense)
            /\ Finish(r)
       ELSE /\ Continue(r, [inflight[r] EXCEPT !.pc = "expense.create"])
            /\ UNCHANGED last

\* last statement: prisma.expense.create
PostExpenseCreate(r) ==
    /\ At(r, "POST_EXPENSE", "expense.create")
    /\ Finish(r)
    /\ UNCHANGED <<users, teams, teamMember, categories, budgets, recurringExpenses>>
    /\ IF ~foreignKeyCategory(inflight[r].categoryId)
       THEN /\ last' = InternalServerError(r)
            /\ expenses' = expenses
       ELSE /\ HasFreshId(ExpenseIds, expenses)
            /\ LET id == FreshId(ExpenseIds, expenses)
                   e == [id |-> id, userId |-> inflight[r].user,
                         teamId |-> IF inflight[r].teamId = UNDEF THEN NULL
                                    ELSE inflight[r].teamId,
                         categoryId |-> inflight[r].categoryId, amount |-> inflight[r].amount]
               IN /\ expenses' = expenses \cup {e}
                  /\ last' = Response("POST_EXPENSE", inflight[r].user, id, inflight[r].teamId,
                                      inflight[r].categoryId, 201, "", NoExpense)

\* the statement of PUT /api/expenses/[id] that follows the lookup of the
\* expense, and the one that follows the lookup of the category
AfterFindExpense(categoryId, teamId) ==
    IF categoryId # UNDEF THEN "category.findFirst"
    ELSE IF teamId \notin {UNDEF, NULL} THEN "teamMember.findFirst"
    ELSE "expense.update"

AfterFindCategory(teamId) ==
    IF teamId \notin {UNDEF, NULL} THEN "teamMember.findFirst" ELSE "expense.update"

\* PUT /api/expenses/[id], first statement: prisma.expense.findFirst with the
\* member row of the user included; the role is read from this result
PutExpenseFindFirst(r, session, id, amount, categoryId, teamId) ==
    /\ Resume(r, "idle")
    /\ UNCHANGED store
    /\ LET e == expenseById(id)
           reply(status, error) ==
               Response("PUT_EXPENSE", session, id, teamId, categoryId, status, error, e)
       IN IF e = NoExpense \/ ~expenseEditWhere(session, e)
          THEN /\ last' = reply(404, "Expense not found or access denied")
               /\ UNCHANGED inflight
          ELSE IF insufficientPermissions(session, e)
          THEN /\ last' = reply(403, "Insufficient permissions to edit this expense")
               /\ UNCHANGED inflight
          ELSE /\ Continue(r, [Idle EXCEPT !.op = "PUT_EXPENSE", !.user = session, !.id = id,
                                          !.amount = amount, !.categoryId = categoryId,
                                          !.teamId = teamId,
                                          !.pc = AfterFindExpense(categoryId, teamId)])
               /\ UNCHANGED last

\* second statement, for a request with a categoryId: prisma.category.findFirst
PutExpenseFindCategory(r) ==
    /\ At(r, "PUT_EXPENSE", "category.findFirst")
    /\ UNCHANGED store
    /\ IF ~categoryAccessible(inflight[r].user, inflight[r].categoryId)
       THEN /\ last' = Response("PUT_EXPENSE", inflight[r].user, inflight[r].id,
                                inflight[r].teamId, inflight[r].categoryId, 404,
                                "Category not found or access denied",
                                expenseById(inflight[r].id))
            /\ Finish(r)
       ELSE /\ Continue(r, [inflight[r] EXCEPT !.pc = AfterFindCategory(inflight[r].teamId)])
            /\ UNCHANGED last

\* third statement, for a request with a team: prisma.teamMember.findFirst
PutExpenseFindTeamMember(r) ==
    /\ At(r, "PUT_EXPENSE", "teamMember.findFirst")
    /\ UNCHANGED store
    /\ IF ~teamWritable(inflight[r].user, inflight[r].teamId)
       THEN /\ last' = Response("PUT_EXPENSE", inflight[r].user, inflight[r].id,
                                inflight[r].teamId, inflight[r].categoryId, 403,
                                "Team not found or insufficient permissions",
                                expenseById(inflight[r].id))
            /\ Finish(r)
       ELSE /\ Continue(r, [inflight[r] EXCEPT !.pc = "expense.update"])
            /\ UNCHANGED last

\* last statement: prisma.expense.update({ where: { id }, data }); it throws
\* when the row is gone or the new categoryId has no row
PutExpenseUpdate(r) ==
    /\ At(r, "PUT_EXPENSE", "expense.update")
    /\ Finish(r)
    /\ UNCHANGED <<users, teams, teamMember, categories, budgets, recurringExpenses>>
    /\ LET e == expenseById(inflight[r].id)
           q == inflight[r]
       IN IF e = NoExpense \/ (q.categoryId # UNDEF /\ ~foreignKeyCategory(q.categoryId))
          THEN /\ last' = [InternalServerError(r) EXCEPT !.before = e]
               /\ expenses' = expenses
          ELSE /\ expenses' = (expenses \ {e}) \cup
                                  {updateExpense(e, q.amount, q.categoryId, q.teamId)}
               /\ last' = Response("PUT_EXPENSE", q.user, q.id, q.teamId, q.categoryId, 200,
                                   "", e)

\* DELETE /api/expenses/[id], first statement: prisma.expense.findFirst
DeleteExpenseFindFirst(r, session, id) ==
    /\ Resume(r, "idle")
    /\ UNCHANGED store
    /\ LET e == expenseById(id)
           reply(status, error) ==
               Response("DELETE_EXPENSE", session, id, UNDEF, UNDEF, status, error, e)
       IN IF e = NoExpense \/ ~expenseEditWhere(session, e)
          THEN /\ last' = reply(404, "Expense not found or access denied")
               /\ UNCHANGED inflight
          ELSE IF insufficientPermissions(session, e)
          THEN /\ last' = reply(403, "Insufficient permissions to delete this expense")
               /\ UNCHANGED inflight
          ELSE /\ Continue(r, [Idle EXCEPT !.op = "DELETE_EXPENSE", !.user = session,
                                          !.id = id, !.pc = "expense.delete"])
               /\ UNCHANGED last

\* last statement: prisma.expense.delete({ where: { id } })
DeleteExpenseDelete(r) ==
    /\ At(r, "DELETE_EXPENSE", "expense.delete")
    /\ Finish(r)
    /\ UNCHANGED <<users, teams, teamMember, categories, budgets, recurringExpenses>>
    /\ LET e == expenseById(inflight[r].id)
       IN IF e = NoExpense
          THEN /\ last' = InternalServerError(r)
               /\ expenses' = expenses
          ELSE /\ expenses' = expenses \ {e}
               /\ last' = Response("DELETE_EXPENSE", inflight[r].user, inflight[r].id, UNDEF,
                                   UNDEF, 200, "", e)

\* what DELETE /api/categories/[id] does once it knows that the user may
\* delete the category: 400 for a category that was in use when it was read
DeleteCategoryDecide(r, q, c) ==
    IF q.inUse
    THEN /\ last' = Response("DELETE_CATEGORY", q.user, q.id, UNDEF, UNDEF, 400,
                             "Cannot delete category that is in use", c)
         /\ Finish(r)
    ELSE /\ Continue(r, [q EXCEPT !.pc = "category.delete"])
         /\ UNCHANGED last

\* DELETE /api/categories/[id], first statement: prisma.category.findUnique
\* with one expense, budget and recurring expense of the category included
DeleteCategoryFindUnique(r, session, id) ==
    /\ Resume(r, "idle")
    /\ UNCHANGED store
    /\ LET c == categoryById(id)
           q == [Idle EXCEPT !.op = "DELETE_CATEGORY", !.user = session, !.id = id,
                             !.inUse = categoryInUse(id)]
       IN IF c = NoCategory
          THEN /\ last' = Response("DELETE_CATEGORY", session, id, UNDEF, UNDEF, 404,
                                   "Category not found", c)
               /\ UNCHANGED inflight
          ELSE IF c.userId # NULL /\ c.userId # session
          THEN IF c.teamId # NULL
               THEN /\ Continue(r, [q EXCEPT !.pc = "teamMember.findUnique",
                                             !.teamId = c.teamId])
                    /\ UNCHANGED last
               ELSE /\ last' = Response("DELETE_CATEGORY", session, id, UNDEF, UNDEF, 403,
                                        "Unauthorized", c)
                    /\ UNCHANGED inflight
          ELSE DeleteCategoryDecide(r, q, c)

\* second statement, for a category of another user in a team:
\* prisma.teamMember.findUnique
DeleteCategoryFindTeamMember(r) ==
    /\ At(r, "DELETE_CATEGORY", "teamMember.findUnique")
    /\ UNCHANGED store
    /\ IF roleOf(inflight[r].user, inflight[r].teamId) # "ADMIN"
       THEN /\ last' = Response("DELETE_CATEGORY", inflight[r].user, inflight[r].id, UNDEF,
                                UNDEF, 403, "Unauthorized", categoryById(inflight[r].id))
            /\ Finish(r)
       ELSE DeleteCategoryDecide(r, inflight[r], categoryById(inflight[r].id))

\* last statement: prisma.category.delete({ where: { id } }); it throws when
\* the row is gone or is referenced
DeleteCategoryDelete(r) ==
    /\ At(r, "DELETE_CATEGORY", "category.delete")
    /\ Finish(r)
    /\ UNCHANGED <<users, teams, teamMember, expenses, budgets, recurringExpenses>>
    /\ LET c == categoryById(inflight[r].id)
       IN IF c = NoCategory \/ categoryReferenced(inflight[r].id)
          THEN /\ last' = [InternalServerError(r) EXCEPT !.before = c]
               /\ categories' = categories
          ELSE /\ categories' = categories \ {c}
               /\ last' = Response("DELETE_CATEGORY", inflight[r].user, inflight[r].id, UNDEF,
                                   UNDEF, 200, "", c)

\* ---- the specifications -------------------------------------------------------
TeamOps ==
    \/ \E s \in Sessions, f \in Faults : PostTeam(s, f)
    \/ \E u \in Users, t \in TeamIds, r \in Role : TeamMemberUpsert(u, t, r)
    \/ \E u \in Users, t \in TeamIds : TeamMemberDelete(u, t)

ExpenseOps ==
    \/ \E s \in Sessions, id \in ExpenseIds : GetExpense(s, id)
    \/ \E s \in Sessions, a \in Amounts, c \in CategoryIds, t \in TeamIds \cup {UNDEF} :
          PostExpense(s, a, c, t)
    \/ \E s \in Sessions, id \in ExpenseIds, a \in Amounts \cup {UNDEF},
          c \in CategoryIds \cup {UNDEF}, t \in TeamIds \cup {UNDEF, NULL} :
          PutExpense(s, id, a, c, t)
    \/ \E s \in Sessions, id \in ExpenseIds : DeleteExpense(s, id)

CategoryOps ==
    \/ \E s \in Sessions, id \in CategoryIds : GetCategory(s, NULL, id)
    \/ \E s \in Sessions, n \in Names, d \in IsDefaultInputs,
          t \in TeamIds \cup {NULL} : PostCategory(s, NULL, n, d, t)
    \/ \E s \in Sessions, id \in CategoryIds, n \in Names \cup {UNDEF},
          d \in IsDefaultInputs : PutCategory(s, NULL, id, n, d)
    \/ \E s \in Sessions, id \in CategoryIds : DeleteCategory(s, NULL, id)

\* the expense routes over teams, memberships and categories
NextExpense ==
    \/ TeamOps
    \/ ExpenseOps
    \/ \E s \in Sessions, n \in Names, d \in IsDefaultInputs,
          t \in TeamIds \cup {NULL} : PostCategory(s, NULL, n, d, t)

SpecExpense == Init /\ [][NextExpense]_vars

\* the category routes over teams and memberships
NextCategory == TeamOps \/ CategoryOps

SpecCategory == Init /\ [][NextCategory]_vars

\* the category routes over the three tables that reference a category
NextInUse ==
    \/ \E s \in Sessions, f \in Faults : PostTeam(s, f)
    \/ \E s \in Sessions, n \in Names, d \in IsDefaultInputs,
          t \in TeamIds \cup {NULL} : PostCategory(s, NULL, n, d, t)
    \/ \E s \in Sessions, id \in CategoryIds : DeleteCategory(s, NULL, id)
    \/ \E s \in Sessions, a \in Amounts, c \in CategoryIds, t \in TeamIds \cup {UNDEF} :
          PostExpense(s, a, c, t)
    \/ \E s \in Sessions, id \in ExpenseIds : DeleteExpense(s, id)
    \/ \E u \in Users, c \in CategoryIds : BudgetCreate(u, c, NULL)
    \/ \E u \in Users, c \in CategoryIds : RecurringExpenseCreate(u, c)

SpecInUse == Init /\ [][NextInUse]_vars

\* signup, team creation, the provisioning calls and the category routes, from
\* the empty store
NextProvision ==
    \/ \E e \in Emails : Signup(e)
    \/ \E s \in ActiveSessions, f \in Faults : PostTeam(s, f)
    \/ \E u \in Users : CallCreateDefaultCategoriesForUser(u)
    \/ \E t \in TeamIds : CallCreateDefaultCategoriesForTeam(t)
    \/ \E s \in ActiveSessions, n \in Names, d \in IsDefaultInputs,
          t \in TeamIds \cup {NULL} : PostCategory(s, NULL, n, d, t)
    \/ \E s \in ActiveSessions, id \in CategoryIds, n \in Names \cup {UNDEF},
          d \in IsDefaultInputs : PutCategory(s, NULL, id, n, d)
    \/ \E s \in ActiveSessions, id \in CategoryIds : DeleteCategory(s, NULL, id)

SpecProvision == InitEmpty /\ [][NextProvision]_vars

\* the routes as requests with both credentials, the user of the session and
\* the user of the bearer token (NULL when the request carries none)
CategoryRoutes(session, token) ==
    \/ \E id \in CategoryIds : GetCategory(session, token, id)
    \/ \E n \in Names, d \in IsDefaultInputs, t \in TeamIds \cup {NULL} :
          PostCategory(session, token, n, d, t)
    \/ \E id \in CategoryIds, n \in Names \cup {UNDEF}, d \in IsDefaultInputs :
          PutCategory(session, token, id, n, d)
    \/ \E id \in CategoryIds : DeleteCategory(session, token, id)

\* the expense handlers call getServerSession only: the Authorization header
\* of the request is not read
ExpenseRoutes(session, token) ==
    \/ \E id \in ExpenseIds : GetExpense(session, id)
    \/ \E a \in Amounts, c \in CategoryIds, t \in TeamIds \cup {UNDEF} :
          PostExpense(session, a, c, t)
    \/ \E id \in ExpenseIds, a \in Amounts \cup {UNDEF}, c \in CategoryIds \cup {UNDEF},
          t \in TeamIds \cup {UNDEF, NULL} : PutExpense(session, id, a, c, t)
    \/ \E id \in ExpenseIds : DeleteExpense(session, id)

\* the team handlers call getServerSession only, too
TeamRoutes(session, token) ==
    \/ GetTeams(session)
    \/ \E f \in Faults : PostTeam(session, f)

\* every route under every combination of credentials
NextCredentials ==
    \/ \E s \in Sessions, k \in Users \cup {NULL} : CategoryRoutes(s, k)
    \/ \E s \in Sessions, k \in Users \cup {NULL} : ExpenseRoutes(s, k)
    \/ \E s \in Sessions \cup {NoId}, k \in Users \cup {NULL} : TeamRoutes(s, k)

SpecCredentials == Init /\ [][NextCredentials]_vars

\* the list routes over teams, memberships, expenses and categories
NextList ==
    \/ TeamOps
    \/ \E s \in Sessions, a \in Amounts, c \in CategoryIds, t \in TeamIds \cup {UNDEF} :
          PostExpense(s, a, c, t)
    \/ \E s \in Sessions, n \in Names, d \in IsDefaultInputs,
          t \in TeamIds \cup {NULL} : PostCategory(s, NULL, n, d, t)
    \/ \E s \in Sessions, c \in CategoryIds \cup {UNDEF}, t \in TeamIds \cup {UNDEF},
          p \in Pages, l \in Limits : GetExpenses(s, c, t, p, l)
    \/ \E s \in Sessions, t \in TeamIds \cup {NULL} : GetCategories(s, NULL, t)

SpecList == Init /\ [][NextList]_vars

\* signups and provisioning calls served at the same time, from the empty store
NextSignupRace ==
    \/ \E r \in Requests, e \in Emails : SignupFindUnique(r, e)
    \/ \E r \in Requests : SignupUserCreate(r)
    \/ \E r \in Requests, u \in Users : CallBegin(r, u)
    \/ \E r \in Requests : ProvisionCount(r)
    \/ \E r \in Requests : ProvisionCreateMany(r)

SpecSignupRace == InitEmpty /\ [][NextSignupRace]_vars

\* the expense routes statement by statement, with memberships that change
\* between the statements: the membership writes are single statements, so one
\* request in flight is all it takes for a write to fall between two statements
OneRequest == {1}

NextMembershipRace ==
    \/ \E s \in Users, f \in Faults : PostTeam(s, f)
    \/ \E u \in Users, t \in TeamIds, x \in Role : TeamMemberUpsert(u, t, x)
    \/ \E u \in Users, t \in TeamIds : TeamMemberDelete(u, t)
    \/ \E r \in OneRequest, s \in Users, a \in Amounts, c \in CategoryIds,
          t \in TeamIds \cup {UNDEF} : PostExpenseFindCategory(r, s, a, c, t)
    \/ \E r \in OneRequest : PostExpenseFindTeamMember(r)
    \/ \E r \in OneRequest : PostExpenseCreate(r)
    \/ \E r \in OneRequest, s \in Users, id \in ExpenseIds, a \in Amounts \cup {UNDEF},
          t \in TeamIds \cup {UNDEF, NULL} : PutExpenseFindFirst(r, s, id, a, UNDEF, t)
    \/ \E r \in OneRequest : PutExpenseFindTeamMember(r)
    \/ \E r \in OneRequest : PutExpenseUpdate(r)
    \/ \E r \in OneRequest, s \in Users, id \in ExpenseIds : DeleteExpenseFindFirst(r, s, id)
    \/ \E r \in OneRequest : DeleteExpenseDelete(r)

SpecMembershipRace == Init /\ [][NextMembershipRace]_vars

\* the delete of a category and the writes of expenses that name a category,
\* statement by statement.  No route stores a category with both a userId and
\* a teamId (POST /api/categories and the seeding of a team store userId null
\* with a teamId), so DeleteCategoryFindUnique never hands over to
\* DeleteCategoryFindTeamMember and that statement is not among the steps.
NextCategoryRace ==
    \/ \E s \in Users, f \in Faults : PostTeam(s, f)
    \/ \E s \in Users, n \in Names, d \in IsDefaultInputs, t \in TeamIds \cup {NULL} :
          PostCategory(s, NULL, n, d, t)
    \/ \E r \in Requests, s \in Users, id \in CategoryIds : DeleteCategoryFindUnique(r, s, id)
    \/ \E r \in Requests : DeleteCategoryDelete(r)
    \/ \E r \in Requests, s \in Users, a \in Amounts, c \in CategoryIds :
          PostExpenseFindCategory(r, s, a, c, UNDEF)
    \/ \E r \in Requests : PostExpenseCreate(r)
    \/ \E r \in Requests, s \in Users, id \in ExpenseIds, c \in CategoryIds :
          PutExpenseFindFirst(r, s, id, UNDEF, c, UNDEF)
    \/ \E r \in Requests : PutExpenseFindCategory(r)
    \/ \E r \in Requests : PutExpenseUpdate(r)
    \/ \E r \in Requests, s \in Users, id \in ExpenseIds : DeleteExpenseFindFirst(r, s, id)
    \/ \E r \in Requests : DeleteExpenseDelete(r)

SpecCategoryRace == Init /\ [][NextCategoryRace]_vars

\* the accounts that exist
Accounts == {u.id : u \in users}

\* the delete of a user among the routes of the accounts that exist
NextAccount ==
    \/ \E u \in Accounts : UserDelete(u)
    \/ \E s \in ActiveSessions, f \in Faults : PostTeam(s, f)
    \/ \E u \in Accounts, t \in TeamIds, r \in Role : TeamMemberUpsert(u, t, r)
    \/ \E s \in ActiveSessions, n \in Names, d \in IsDefaultInputs,
          t \in TeamIds \cup {NULL} : PostCategory(s, NULL, n, d, t)
    \/ \E s \in ActiveSessions, a \in Amounts, c \in CategoryIds,
          t \in TeamIds \cup {UNDEF} : PostExpense(s, a, c, t)
    \/ \E u \in Accounts, c \in CategoryIds : BudgetCreate(u, c, NULL)
    \/ \E u \in Accounts, c \in CategoryIds : RecurringExpenseCreate(u, c)

SpecAccount == Init /\ [][NextAccount]_vars

\* ---- properties: category routes (SpecCategory) ------------------------------
\* the last request was served by `op` for a resolved principal
Served(op) == last.op = op /\ last.status # 401

\* C1: GET /api/categories/[id] returns a category only to a principal entitled
\* to it: a category with a teamId only to a current member of that team, a
\* category with a userId and no teamId only to that user.
C1_CategoryReadOnlyByEntitled ==
    (Served("GET_CATEGORY") /\ last.status = 200) =>
        LET c == last.before
        IN /\ c.teamId # NULL => isMember(last.user, c.teamId)
           /\ (c.teamId = NULL /\ c.userId # NULL) => c.userId = last.user

\* C2: PUT and DELETE /api/categories/[id] on a team category (teamId set,
\* userId null) are performed only for an ADMIN or EDITOR of that team; for a
\* VIEWER or a non-member the request is denied and the record stays as it was.
C2_TeamCategoryWriteNeedsRole ==
    ((Served("PUT_CATEGORY") \/ Served("DELETE_CATEGORY"))
        /\ last.before.id # NULL /\ last.before.teamId # NULL /\ last.before.userId = NULL
        /\ roleOf(last.user, last.before.teamId) \notin {"ADMIN", "EDITOR"}) =>
            /\ last.status # 200
            /\ last.before \in categories

\* C8: POST /api/categories with a teamId creates the team category iff the
\* principal's role in that team is ADMIN or EDITOR.
C8_TeamCategoryCreateNeedsRole ==
    (Served("POST_CATEGORY") /\ last.teamId # NULL) =>
        (last.status = 201 <=> roleOf(last.user, last.teamId) \in {"ADMIN", "EDITOR"})

\* C9: the ordinary category routes never create a category with isDefault =
\* TRUE, never change the isDefault of an existing category and never delete a
\* category whose isDefault is TRUE.
C9_IsDefaultOnlyByProvisioning ==
    /\ (Served("POST_CATEGORY") /\ last.status = 201) => ~categoryById(last.id).isDefault
    /\ (Served("PUT_CATEGORY") /\ last.status = 200) =>
           categoryById(last.id).isDefault = last.before.isDefault
    /\ (Served("DELETE_CATEGORY") /\ last.status = 200) => ~last.before.isDefault

\* ---- properties: expense routes (SpecExpense) --------------------------------
\* the last request was a PUT or DELETE of a stored expense
ExpenseEdit ==
    (Served("PUT_EXPENSE") \/ Served("DELETE_EXPENSE")) /\ last.before.id # NULL

\* the request was refused by the load of the expense or by the role check
RefusedByPermission ==
    \/ last.status = 404 /\ last.error = "Expense not found or access denied"
    \/ last.status = 403 /\ last.error \in {"Insufficient permissions to edit this expense",
                                            "Insufficient permissions to delete this expense"}

\* the categoryId and teamId of the PUT body pass their re-validation
ReferencesValid ==
    /\ last.categoryId = UNDEF \/ categoryAccessible(last.user, last.categoryId)
    /\ last.teamId \in {UNDEF, NULL} \/ roleOf(last.user, last.teamId) \in {"ADMIN", "EDITOR"}

\* the outcome of a PUT or DELETE that passed the permission checks: DELETE
\* removes the expense, PUT writes it iff the references of its body are valid
PermittedOutcome ==
    /\ ~RefusedByPermission
    /\ last.op = "DELETE_EXPENSE" =>
          last.status = 200 /\ \A e \in expenses : e.id # last.id
    /\ last.op = "PUT_EXPENSE" =>
          /\ last.status = 200 <=> ReferencesValid
          /\ last.status # 200 => last.before \in expenses

\* C3: for a team expense created by somebody else, PUT and DELETE
\* /api/expenses/[id] are permitted iff the principal's current role in the
\* expense's team is ADMIN or EDITOR; a VIEWER or a non-member never updates or
\* deletes it.
C3_TeamExpenseEditByRole ==
    (ExpenseEdit /\ last.before.teamId # NULL /\ last.before.userId # last.user) =>
        IF roleOf(last.user, last.before.teamId) \in {"ADMIN", "EDITOR"}
        THEN PermittedOutcome
        ELSE last.status # 200 /\ last.before \in expenses

\* an EDITOR who did not create a team expense has just updated it
C3_Witness ==
    /\ Served("PUT_EXPENSE") /\ last.status = 200
    /\ last.before.teamId # NULL /\ last.before.userId # last.user
    /\ roleOf(last.user, last.before.teamId) = "EDITOR"
    /\ expenseById(last.id) # last.before

\* C4: a VIEWER of the team who did not create a team expense gets 403
\* ('Insufficient permissions ...', not 404) on PUT and DELETE, the expense
\* stays as it was, and the same principal's GET of it answers 200.
C4_ViewerWriteIsForbidden ==
    (last.status # 401 /\ last.op \in {"PUT_EXPENSE", "DELETE_EXPENSE", "GET_EXPENSE"}
        /\ last.before.id # NULL /\ last.before.teamId # NULL
        /\ last.before.userId # last.user
        /\ roleOf(last.user, last.before.teamId) = "VIEWER") =>
            IF last.op = "GET_EXPENSE"
            THEN last.status = 200
            ELSE /\ last.status = 403
                 /\ last.error \in {"Insufficient permissions to edit this expense",
                                    "Insufficient permissions to delete this expense"}
                 /\ last.before \in expenses

\* C5: the creator of an expense is never refused by the permission checks of
\* PUT and DELETE /api/expenses/[id], whatever the expense's teamId and whatever
\* the creator's role in that team: DELETE removes the expense and PUT writes
\* it (provided the references of the body are valid).
C5_OwnerOverride ==
    (ExpenseEdit /\ last.before.userId = last.user) => PermittedOutcome

\* the creator of a team expense, now VIEWER of the team, has just updated it
C5_Witness ==
    /\ Served("PUT_EXPENSE") /\ last.status = 200
    /\ last.before.userId = last.user /\ last.before.teamId # NULL
    /\ roleOf(last.user, last.before.teamId) = "VIEWER"
    /\ expenseById(last.id) # last.before

\* C6: a personal expense (teamId null) of user U is returned by GET
\* /api/expenses/[id] to U with 200 and answered with 404 to anybody else, and
\* a PUT or DELETE by anybody else never changes or removes it.
C6_PersonalExpenseIsolation ==
    (last.status # 401 /\ last.op \in {"GET_EXPENSE", "PUT_EXPENSE", "DELETE_EXPENSE"}
        /\ last.before.id # NULL /\ last.before.teamId = NULL) =>
            /\ (last.op = "GET_EXPENSE" /\ last.before.userId = last.user) => last.status = 200
            /\ last.before.userId # last.user =>
                  /\ last.status = 404
                  /\ last.before \in expenses

\* somebody else than the creator has just asked for a personal expense
C6_Witness ==
    /\ Served("GET_EXPENSE") /\ last.status = 404
    /\ last.before.id # NULL /\ last.before.teamId = NULL
    /\ last.before.userId # last.user
    /\ \E t \in teams : isMember(last.user, t) /\ isMember(last.before.userId, t)

\* a POST /api/expenses that names a team in which the principal is neither
\* ADMIN nor EDITOR (the team may not exist) has just been served
UnauthorizedTeamPost ==
    /\ last'.op = "POST_EXPENSE" /\ last'.status # 401
    /\ last'.teamId # UNDEF
    /\ roleOf(last'.user, last'.teamId) \notin {"ADMIN", "EDITOR"}

\* C7: POST /api/expenses with a teamId stores a team expense only for an ADMIN
\* or EDITOR of that team; when the team does not exist or the principal is a
\* non-member or a VIEWER, the request fails with 403 (the category of the
\* request being one the principal may use) and no expense at all is created,
\* in particular no personal one.
C7_TeamExpenseCreateNeedsRole ==
    [][/\ UnauthorizedTeamPost =>
            /\ expenses' = expenses
            /\ last'.status \in {403, 404}
            /\ categoryAccessible(last'.user, last'.categoryId) =>
                   /\ last'.status = 403
                   /\ last'.error = "Team not found or insufficient permissions"
       /\ (last'.op = "POST_EXPENSE" /\ last'.status = 201 /\ last'.teamId # UNDEF) =>
            /\ roleOf(last'.user, last'.teamId) \in {"ADMIN", "EDITOR"}
            /\ \E e \in expenses' \ expenses :
                   e.id = last'.id /\ e.teamId = last'.teamId /\ e.userId = last'.user
      ]_vars

\* a VIEWER has just been refused the creation of an expense in the team
C7_Witness ==
    /\ Served("POST_EXPENSE") /\ last.status = 403
    /\ last.teamId \in teams
    /\ roleOf(last.user, last.teamId) = "VIEWER"
    /\ categoryAccessible(last.user, last.categoryId)

\* the last request was a PUT or DELETE by x of an expense of team t that x did
\* not create, served while x's row in t said VIEWER
EditAsViewer(x, t) ==
    /\ ExpenseEdit
    /\ last.user = x /\ last.before.teamId = t /\ last.before.userId # x
    /\ t \in teams /\ teamMember[<<x, t>>] = "VIEWER"

\* C13: once the role of X in team T has changed from EDITOR to VIEWER, every
\* later PUT or DELETE by X of an expense of T that X did not create is denied
\* and leaves the expense as it was: each request reads the role that is
\* stored when it is served.
C13_RoleChangeImmediate ==
    \A x \in Users, t \in TeamIds :
        [](teamMember[<<x, t>>] = "EDITOR" =>
              [](EditAsViewer(x, t) =>
                    /\ last.status \in {403, 404}
                    /\ last.before \in expenses))

\* a member of the team, VIEWER now, has been refused the update of an expense
\* of the team that somebody else created
C13_Witness ==
    /\ \E x \in Users, t \in TeamIds : EditAsViewer(x, t)
    /\ last.op = "PUT_EXPENSE"
    /\ last.status \in {403, 404}
    /\ expenseById(last.id) = last.before

\* C18: POST /api/expenses stores the acting principal as the expense's userId,
\* and no PUT /api/expenses/[id] changes the userId of an expense, whoever sends
\* it and whatever teamId it writes.
C18_ExpenseCreatorImmutable ==
    [][/\ (last'.op = "POST_EXPENSE" /\ last'.status = 201) =>
             \E e \in expenses' \ expenses : e.id = last'.id /\ e.userId = last'.user
       /\ last'.op = "PUT_EXPENSE" =>
             \A e \in expenses : \A f \in expenses' : f.id = e.id => f.userId = e.userId
      ]_vars

\* an ADMIN or EDITOR who did not create a team expense has just moved it out
\* of the team: it is a personal expense of its creator now
C18_Witness ==
    /\ Served("PUT_EXPENSE") /\ last.status = 200
    /\ last.before.teamId # NULL /\ last.before.userId # last.user
    /\ expenseById(last.id).teamId = NULL
    /\ expenseById(last.id).userId = last.before.userId

\* the category may be read by the user under the Read rule: a personal
\* category of the user, a category of a team the user is a member of, or a
\* default category without an owner
CategoryReadRight(userId, c) ==
    \/ c.teamId = NULL /\ c.userId = userId
    \/ c.teamId # NULL /\ isMember(userId, c.teamId)
    \/ c.teamId = NULL /\ c.userId = NULL /\ c.isDefault

\* C19: the categoryId that a successful POST /api/expenses or PUT
\* /api/expenses/[id] stores is the id of a category the principal may read,
\* never of a category personal to somebody else.
C19_CategoryReferenceReadable ==
    (\/ (Served("POST_EXPENSE") /\ last.status = 201)
     \/ (Served("PUT_EXPENSE") /\ last.status = 200 /\ last.categoryId # UNDEF)) =>
        CategoryReadRight(last.user, categoryById(last.categoryId))

\* ---- properties: category delete guard (SpecInUse) ----------------------------
\* C10: DELETE /api/categories/[id] of a category that an Expense, a Budget or
\* a RecurringExpense references leaves the category in place and, for a
\* principal who passes the permission check, answers 400 'Cannot delete
\* category that is in use'; a category is deleted only with zero references.
C10_CategoryDeleteGuard ==
    [][(last'.op = "DELETE_CATEGORY" /\ last'.status # 401) =>
          LET c == categoryById(last'.id)
          IN /\ (c.id # NULL /\ categoryInUse(c.id)) =>
                   /\ categories' = categories
                   /\ last'.status \in {400, 403}
                   /\ ~categoryDeleteDenied(last'.user, c) =>
                          /\ last'.status = 400
                          /\ last'.error = "Cannot delete category that is in use"
             /\ last'.status = 200 =>
                   /\ c.id # NULL
                   /\ \A e \in expenses : e.categoryId # c.id
                   /\ \A b \in budgets : b.categoryId # c.id
                   /\ \A r \in recurringExpenses : r.categoryId # c.id
                   /\ categories' = categories \ {c}
      ]_vars

\* the delete of a category that only a budget references has been refused
C10_Witness ==
    /\ Served("DELETE_CATEGORY") /\ last.status = 400
    /\ \E c \in categories : c.id = last.id
    /\ \E b \in budgets : b.categoryId = last.id
    /\ \A e \in expenses : e.categoryId # last.id

\* ---- properties: provisioning and team creation (SpecProvision) ---------------
\* the owner (a user or a team) has at least one category
UserHasCategories(userId) == \E c \in categories : c.userId = userId

TeamHasCategories(teamId) == \E c \in categories : c.teamId = teamId

\* C11: a call of createDefaultCategoriesForUser (createDefaultCategoriesForTeam)
\* for an owner who already has at least one category inserts nothing and
\* leaves the categories as they were; hence a second call for the same owner,
\* made after the first one completed, yields the category set of the first.
C11_ProvisioningIdempotent ==
    /\ [](/\ \A u \in Users : (UserHasCategories(u) \/ CanSeed(categories)) =>
                 createDefaultCategoriesForUser(u, createDefaultCategoriesForUser(u, categories))
                     = createDefaultCategoriesForUser(u, categories)
          /\ \A t \in TeamIds : (TeamHasCategories(t) \/ CanSeed(categories)) =>
                 createDefaultCategoriesForTeam(t, createDefaultCategoriesForTeam(t, categories))
                     = createDefaultCategoriesForTeam(t, categories))
    /\ [][/\ \A u \in Users :
                (CallCreateDefaultCategoriesForUser(u) /\ UserHasCategories(u)) =>
                    categories' = categories /\ last'.result = {}
          /\ \A t \in TeamIds :
                (CallCreateDefaultCategoriesForTeam(t) /\ TeamHasCategories(t)) =>
                    categories' = categories /\ last'.result = {}
         ]_vars

\* an account that holds a seeded category has been provisioned once more, and
\* the call inserted nothing
C11_Witness ==
    /\ last.op = "createDefaultCategoriesForUser"
    /\ last.result = {}
    /\ \E c \in categories : c.userId = last.id /\ c.isDefault

\* C12: every team has an ADMIN membership from the moment it is stored: POST
\* /api/teams stores the team together with the ADMIN row of its creator, and
\* when the insert of that row fails the team is not stored either.
C12_TeamCreationAtomic ==
    /\ [](\A t \in teams : \E u \in Users : teamMember[<<u, t>>] = "ADMIN")
    /\ [][\A s \in ActiveSessions \ {NULL}, f \in Faults : PostTeam(s, f) =>
              /\ \A t \in teams' \ teams : teamMember'[<<s, t>>] = "ADMIN"
              /\ f = "teamMember.create" =>
                     /\ teams' = teams
                     /\ teamMember' = teamMember
                     /\ last'.status = 500
         ]_vars

\* the transaction of a team creation has failed: the request is answered 500
\* and neither a team nor a membership is stored
C12_Witness ==
    /\ last.op = "POST_TEAM" /\ last.status = 500
    /\ last.user \in Users
    /\ teams = {}
    /\ \A p \in Users \X TeamIds : teamMember[p] = NONE

\* C17: every category has exactly one of userId and teamId set, except the
\* categories with isDefault = TRUE, which have neither.
C17_CategoryScopeInvariant ==
    \A c \in categories :
        IF c.isDefault
        THEN c.userId = NULL /\ c.teamId = NULL
        ELSE (c.userId # NULL) # (c.teamId # NULL)

\* ---- properties: credentials (SpecCredentials) --------------------------------
\* C14: a request that carries no session but a valid bearer token of user U
\* has the outcome (response and store) of the same request with a session of
\* U, on every expense, category and team route.
C14_TokenAsSession ==
    [][\A u \in Users :
          /\ CategoryRoutes(NULL, u) => CategoryRoutes(u, NULL)
          /\ ExpenseRoutes(NULL, u) => ExpenseRoutes(u, NULL)
          /\ TeamRoutes(NULL, u) => TeamRoutes(u, NULL)
      ]_vars

\* the answer to a request for which no principal is resolved: 401
\* 'Unauthorized', nothing of the store in the response, nothing written
RefusedUnread ==
    /\ last'.status = 401 /\ last'.error = "Unauthorized"
    /\ last'.user = NULL /\ last'.before.id = NULL /\ last'.result = {}
    /\ UNCHANGED store

C16_SessionWithoutIdIsRefused ==
    (last.op \in {"GET_TEAMS", "POST_TEAM"} /\ last.user = NoId) =>
        /\ last.status = 401
        /\ last.result = {}

\* ---- properties: existence leak (SpecCategory) --------------------------------
\* C20: read-by-id of a stored resource the principal has no Read right on is
\* answered like a read of an id that does not exist: 404 with the not-found
\* message of the route.
C20_NoExistenceLeak ==
    /\ (Served("GET_CATEGORY") /\ last.before.id # NULL
           /\ ~CategoryReadRight(last.user, last.before)) =>
              last.status = 404 /\ last.error = "Category not found"
    /\ (Served("GET_EXPENSE") /\ last.before.id # NULL
           /\ ~expenseReadWhere(last.user, last.before)) =>
              last.status = 404 /\ last.error = "Expense not found"

\* ---- properties: list routes (SpecList) ---------------------------------------
\* the expenses the user may see in a list: the own ones and those of the teams
\* the user is a member of, in whatever role
VisibleExpenses(userId) ==
    {e \in expenses : \/ e.userId = userId
                      \/ e.teamId # NULL /\ e.teamId \in teams
                           /\ teamMember[<<userId, e.teamId>>] \in Role}

C22_CategoryListOnlyReadable ==
    (Served("GET_CATEGORIES") /\ last.status = 200) =>
        IF last.teamId = NULL
        THEN last.result = {c \in categories : c.userId = last.user /\ c.teamId = NULL}
        ELSE /\ last.result \subseteq {c \in categories : c.teamId = last.teamId}
             /\ ~isMember(last.user, last.teamId) => last.result = {}

\* ---- properties: the delete of a user (SpecAccount) ---------------------------
\* C23: the delete of a user removes the personal expenses, categories, budgets
\* and recurring expenses of the user and the memberships, and never an
\* expense of a team that the user created.
C23_UserDeleteKeepsTeamExpenses ==
    [][(last'.op = "user.delete" /\ last'.error = "") =>
          /\ \A e \in expenses : e.teamId # NULL => e \in expenses'
          /\ \A e \in expenses : (e.userId = last'.id /\ e.teamId = NULL) => e \notin expenses'
          /\ \A t \in TeamIds : teamMember'[<<last'.id, t>>] = NONE]_vars

\* ---- properties: team creation with its defaults (SpecProvision) --------------
\* C24: the creation of a team is all or nothing, the default categories
\* included: an answer 201 leaves the team, the ADMIN row of its creator and the
\* default categories of the team, and an answer 500 'Failed to create team'
\* leaves no team and no membership.
C24_TeamCreationAllOrNothing ==
    [][last'.op = "POST_TEAM" =>
          /\ last'.status = 201 =>
                 \E t \in teams' \ teams :
                    /\ teamMember'[<<last'.user, t>>] = "ADMIN"
                    /\ \E c \in categories' : c.teamId = t /\ c.isDefault
          /\ last'.status = 500 =>
                 /\ last'.error = "Failed to create team"
                 /\ teams' = teams
                 /\ teamMember' = teamMember]_vars

\* ---- properties: refused updates of an expense (SpecExpense) ------------------
\* the request names a category the user has no access to
NamesInaccessibleCategory(userId, categoryId) ==
    /\ categoryId # UNDEF
    /\ ~\E c \in categories : /\ c.id = categoryId
                               /\ \/ c.userId = userId
                                  \/ c.isDefault
                                  \/ c.teamId # NULL /\ teamMember[<<userId, c.teamId>>] # NONE

\* the request names a team in which the user is neither ADMIN nor EDITOR
NamesUnwritableTeam(userId, teamId) ==
    /\ teamId \notin {UNDEF, NULL}
    /\ ~(teamId \in teams /\ teamMember[<<userId, teamId>>] \in {"ADMIN", "EDITOR"})

\* C25: PUT /api/expenses/[id] that names a category the principal cannot
\* access (404) or a non-null team in which the principal is neither ADMIN nor
\* EDITOR (403) is refused and changes no field of the expense.
C25_RefusedUpdateChangesNothing ==
    [][(/\ last'.op = "PUT_EXPENSE" /\ last'.user \in Users
        /\ \/ NamesInaccessibleCategory(last'.user, last'.categoryId)
           \/ NamesUnwritableTeam(last'.user, last'.teamId)) =>
          /\ last'.status \in {403, 404}
          /\ expenses' = expenses
          /\ (last'.error = "Category not found or access denied") =>
                 (last'.status = 404 /\ NamesInaccessibleCategory(last'.user, last'.categoryId))
          /\ (last'.error = "Team not found or insufficient permissions") =>
                 (last'.status = 403 /\ NamesUnwritableTeam(last'.user, last'.teamId))]_vars

\* an update that the user may make to the expense has named a category out
\* of the user's reach: it is answered 404 and the expense is as it was
C25_Witness ==
    /\ last.op = "PUT_EXPENSE" /\ last.status = 404
    /\ last.error = "Category not found or access denied"
    /\ last.before \in expenses
    /\ NamesInaccessibleCategory(last.user, last.categoryId)

\* ---- properties: moves of an expense between scopes (SpecExpense) -------------
\* C27: every PUT that succeeds and changes the teamId of an expense was sent
\* by an ADMIN or EDITOR of the new team when the new teamId names a team, and
\* by the creator of the expense when the new teamId is null: an editor who
\* is not the creator never takes a member's expense out of its team.
C27_ScopeMoveIsAuthorized ==
    [][(/\ last'.op = "PUT_EXPENSE" /\ last'.status = 200
        /\ last'.before \in expenses
        /\ \E e \in expenses' : e.id = last'.id /\ e.teamId # last'.before.teamId) =>
          LET new == CHOOSE e \in expenses' : e.id = last'.id
          IN IF new.teamId # NULL
             THEN teamMember[<<last'.user, new.teamId>>] \in {"ADMIN", "EDITOR"}
             ELSE last'.before.userId = last'.user]_vars

\* ---- properties: requests served at the same time (SpecSignupRace) ------------
\* C28: provisioning leaves at most one seed set per owner under concurrency:
\* when the calls of createDefaultCategoriesForUser for an owner who had no
\* category have all returned, the owner has one copy of each default category
\* and no two categories of the same name.
C28_OneSeedSetPerOwner ==
    (\A r \in Requests : inflight[r].pc = "idle") =>
        \A u \in Users :
           LET own == {c \in categories : c.userId = u}
           IN /\ Cardinality(own) <= NumDefaults
              /\ \A c1, c2 \in own : c1.name = c2.name => c1 = c2

\* C30: no two users share an email, whatever the order in which the
\* statements of the signups run, and a signup that finds its email with an
\* existing user is answered 409 'User with this email already exists' and
\* creates neither a user nor a default category.
C30_EmailsStayUnique ==
    /\ [](\A u1, u2 \in users : u1.email = u2.email => u1 = u2)
    /\ [][\A r \in Requests, e \in Emails :
            (SignupFindUnique(r, e) /\ \E u \in users : u.email = e) =>
               /\ last'.status = 409
               /\ last'.error = "User with this email already exists"
               /\ users' = users /\ categories' = categories
               /\ inflight'[r] = Idle]_vars

\* two signups with the same email have run at the same time: both found the
\* email free, one has created the user, and the insert of the other has been
\* rejected
C30_Witness ==
    /\ last.op = "SIGNUP" /\ last.status = 500
    /\ \E u \in users : u.email \in last.result
    /\ \A u1, u2 \in users : u1.email = u2.email => u1 = u2

\* ---- properties: writes of expenses and membership changes (SpecMembershipRace)
\* the user may write to the team at this moment
WritesTo(userId, teamId) ==
    teamId \in teams /\ teamMember[<<userId, teamId>>] \in {"ADMIN", "EDITOR"}

\* the user may change or delete the expense at this moment: a personal
\* expense is the creator's, a team expense is open to its creator and to the
\* ADMINs and EDITORs of the team
MayEdit(userId, e) ==
    IF e.teamId = NULL THEN e.userId = userId
    ELSE e.userId = userId \/ WritesTo(userId, e.teamId)

\* C26: the permission check and the write of an expense create, update or
\* delete are one atomic unit with respect to membership changes: a principal
\* who has been removed from the team or demoted to VIEWER creates, changes
\* or deletes no expense of the team afterwards, so every write finds the
\* principal with the right that its checks asked for.
C26_CheckAndWriteAtomic ==
    [][\A r \in OneRequest :
          LET q == inflight[r]
              e == expenseById(q.id)
          IN /\ (PostExpenseCreate(r) /\ expenses' # expenses /\ q.teamId # UNDEF) =>
                    WritesTo(q.user, q.teamId)
             /\ (PutExpenseUpdate(r) /\ expenses' # expenses) =>
                    /\ MayEdit(q.user, e)
                    /\ q.teamId \notin {UNDEF, NULL} => WritesTo(q.user, q.teamId)
             /\ (DeleteExpenseDelete(r) /\ expenses' # expenses) => MayEdit(q.user, e)]_vars

\* ---- properties: category references (SpecCategoryRace) -----------------------
\* C29: no expense is left with a dangling category reference: whatever the
\* order in which the statements of DELETE /api/categories/[id] and of POST
\* /api/expenses or PUT /api/expenses/[id] with that category run, the
\* categoryId of every stored expense names a stored category.
C29_NoDanglingCategory ==
    \A e \in expenses : \E c \in categories : c.id = e.categoryId

\* a delete has read the category as unused, an expense with the category has
\* been stored before the delete statement ran, and the delete has been refused
C29_Witness ==
    /\ last.op = "DELETE_CATEGORY" /\ last.status = 500
    /\ \E e \in expenses : e.categoryId = last.id
    /\ \E c \in categories : c.id = last.id

====
